---- MODULE Spec2Model ----
(***************************************************************************)
(* Model of the MarketMaker strategy of src/strategy.py: a timer-driven    *)
(* quote cycle (cancel-all, buy limit, sell limit) around a mid price      *)
(* tracked from order-book deltas, with linear inventory skewing.          *)
(*                                                                         *)
(* The strategy's fields keep their Python names.  What the strategy asks  *)
(* of the runtime (subscribe, set_timer, cancel_timer, cancel_all_orders,  *)
(* close_all_positions, submit_order) is recorded, call by call, in        *)
(* `issued`: the calls made by the step that has just run.                 *)
(*                                                                         *)
(* decimal.Decimal values are exact rationals [n, d] in lowest terms: for  *)
(* the values enumerated here every sum, product and quotient the code     *)
(* forms is a terminating decimal of far fewer than the 28 significant     *)
(* digits of Python's default decimal context, so no operation rounds.     *)
(***************************************************************************)
EXTENDS Integers, Sequences, FiniteSets, TLC

VARIABLES
    cfg,              \* MarketMakerConfig: the frozen configuration
    fsm,              \* the runtime's component state: READY, RUNNING, STOPPED
    instrument,       \* self.instrument: None or the cached instrument
    _book,            \* self._book: None or the local L2 order book
    _current_mid,     \* self._current_mid: None or a Decimal
    timerArmed,       \* the clock holds a timer named "quote_timer"
    subscribed,       \* the runtime holds a book-delta subscription
    positions_open,   \* cache.positions_open(instrument_id): signed quantities
    cacheInstrument,  \* cache.instrument(instrument_id) is not None
    issued,           \* the runtime calls made by the latest step, in order
    plan,             \* the quote plan of the cycle that has just run, or None
    nSubmitted,       \* submit_order calls made so far
    bothSeen,         \* history: a handled batch left both best bid and best ask
    lastEvent,        \* which operation the latest step was
    pendingCancels,   \* cancel-all requests sent and not yet processed
    pendingSubmits,   \* submit requests sent and not yet processed
    resting           \* the strategy's orders resting at the venue

vars == <<cfg, fsm, instrument, _book, _current_mid, timerArmed, subscribed,
          positions_open, cacheInstrument, issued, plan, nSubmitted, bothSeen,
          lastEvent, pendingCancels, pendingSubmits, resting>>

\* The venue's side of the strategy's requests.
venue == <<pendingCancels, pendingSubmits, resting>>

----------------------------------------------------------------------------
(* Bounds of the model.                                                    *)

\* Quote cycles that submit are counted up to this many submit_order calls.
MaxSubmitted == 4
\* Open positions are multiples of 2.5 up to MaxPosK steps, long or short.
MaxPosK == 2
\* As MaxPosK, for the specification that applies the planner alone.
MaxPlanPosK == 12
\* Deltas in one OrderBookDeltas batch.
MaxBatch == 2
\* Decimal places of the instrument's prices and sizes.
PricePrecision == 1
SizePrecision == 3

----------------------------------------------------------------------------
(* Optional values: None is the empty sequence, a present value a          *)
(* one-element sequence.                                                   *)

None == <<>>
Some(v) == <<v>>
Val(o) == o[1]

----------------------------------------------------------------------------
(* decimal.Decimal as exact rationals.                                     *)

Abs(x) == IF x < 0 THEN -x ELSE x

RECURSIVE Gcd(_, _)
Gcd(a, b) == IF b = 0 THEN a ELSE Gcd(b, a % b)

\* The rational n/d (d # 0) in lowest terms with a positive denominator.
Dec(n, d) ==
    LET g == Gcd(Abs(n), Abs(d))
        s == IF d < 0 THEN -1 ELSE 1
    IN  [n |-> (s * n) \div g, d |-> (s * d) \div g]

DecInt(k) == [n |-> k, d |-> 1]
DecAdd(a, b) == Dec(a.n * b.d + b.n * a.d, a.d * b.d)
DecSub(a, b) == Dec(a.n * b.d - b.n * a.d, a.d * b.d)
DecMul(a, b) == Dec(a.n * b.n, a.d * b.d)
\* a / b: None stands for the decimal.DivisionByZero (InvalidOperation for
\* 0 / 0) that a zero divisor raises.
DecDiv(a, b) == IF b.n = 0 THEN None ELSE Some(Dec(a.n * b.d, a.d * b.n))
DecAbs(a) == [n |-> Abs(a.n), d |-> a.d]
DecLt(a, b) == a.n * b.d < b.n * a.d
DecLe(a, b) == a.n * b.d <= b.n * a.d
DecMin(a, b) == IF DecLt(b, a) THEN b ELSE a
DecMax(a, b) == IF DecLt(a, b) THEN b ELSE a

RECURSIVE Pow10(_)
Pow10(k) == IF k = 0 THEN 1 ELSE 10 * Pow10(k - 1)

\* Price(value, precision) and instrument.make_qty(value): the value at the
\* given number of decimal places.  The nearest such value; a value exactly
\* half way between two of them may go to either.
RoundTo(x, precision) ==
    LET scaled == x.n * Pow10(precision)
        lo == scaled \div x.d
        rem == scaled % x.d
        ks == IF 2 * rem < x.d THEN {lo}
              ELSE IF 2 * rem > x.d THEN {lo + 1}
              ELSE {lo, lo + 1}
    IN  {Dec(k, Pow10(precision)) : k \in ks}

----------------------------------------------------------------------------
(* The values the model draws from.                                        *)

\* MarketMakerConfig.  No field is checked when the configuration is built.
Config(size, spread, threshold, interval, close) ==
    [trade_size |-> size, spread_pct |-> spread,
     inventory_threshold |-> threshold, quote_interval_seconds |-> interval,
     close_positions_on_stop |-> close]

\* The configurations of the strategy's runs: the default spread of 1%, the
\* default threshold of 5 or the degenerate threshold 0, either stop policy.
Configs ==
    {Config(Dec(1, 100), Dec(1, 100), DecInt(t), 5, c) :
        t \in {0, 5}, c \in BOOLEAN}

\* The configurations the quote cycle alone is run on: spreads of 0.1% (the
\* one main.py sets), 1% (the default) and 200%, thresholds 0, 1, 4 and 5.
\* With positions in halves every quotient |position| / threshold terminates.
PlanConfigs ==
    {Config(Dec(1, 100), s, DecInt(t), 5, TRUE) :
        s \in {Dec(1, 1000), Dec(1, 100), DecInt(2)}, t \in {0, 1, 4, 5}}

\* cache.positions_open(instrument_id): no open position, or one whose signed
\* quantity is a non-zero multiple of 2.5 (of 0.5 for the planner alone).
PositionLists(unit, k) ==
    {None} \cup {Some(DecMul(DecInt(j), unit)) : j \in ((-k)..k) \ {0}}

Positions == PositionLists(Dec(5, 2), MaxPosK)
PlanPositions == PositionLists(Dec(1, 2), MaxPlanPosK)

\* The instrument the cache holds.
Instrument ==
    [price_precision |-> PricePrecision, size_precision |-> SizePrecision]

\* The price levels the venue's book can hold on each side.
BidPrices == {99}
AskPrices == {100, 101}

\* One OrderBookDelta: a level added or deleted on a side, or the book cleared.
Deltas ==
    [action : {"ADD", "DELETE"}, side : {"BUY"}, price : BidPrices]
    \cup [action : {"ADD", "DELETE"}, side : {"SELL"}, price : AskPrices]
    \cup {[action |-> "CLEAR", side |-> "NO_ORDER_SIDE", price |-> 0]}

\* OrderBookDeltas: a batch of one to MaxBatch deltas.
Batches == UNION {[1..k -> Deltas] : k \in 1..MaxBatch}

----------------------------------------------------------------------------
(* The local order book (nautilus OrderBook, L2_MBP), by price level.      *)

EmptyBook == [bids |-> {}, asks |-> {}]

ApplyDelta(book, d) ==
    CASE d.action = "CLEAR" -> EmptyBook
      [] d.action = "ADD" /\ d.side = "BUY" ->
            [book EXCEPT !.bids = @ \cup {d.price}]
      [] d.action = "ADD" /\ d.side = "SELL" ->
            [book EXCEPT !.asks = @ \cup {d.price}]
      [] d.action = "DELETE" /\ d.side = "BUY" ->
            [book EXCEPT !.bids = @ \ {d.price}]
      [] d.action = "DELETE" /\ d.side = "SELL" ->
            [book EXCEPT !.asks = @ \ {d.price}]

RECURSIVE apply_deltas(_, _)
apply_deltas(book, deltas) ==
    IF deltas = <<>> THEN book
    ELSE apply_deltas(ApplyDelta(book, Head(deltas)), Tail(deltas))

\* The highest bid level, or None.
best_bid_price(book) ==
    IF book.bids = {} THEN None
    ELSE Some(CHOOSE p \in book.bids : \A q \in book.bids : q <= p)

\* The lowest ask level, or None.
best_ask_price(book) ==
    IF book.asks = {} THEN None
    ELSE Some(CHOOSE p \in book.asks : \A q \in book.asks : p <= q)

\* Decimal((bid + ask) / 2)
MidOf(bid, ask) == Val(DecDiv(DecAdd(DecInt(bid), DecInt(ask)), DecInt(2)))

----------------------------------------------------------------------------
(* The skew calculation and the quote plan.                                *)

\* MAX_SKEW as the whole spread: at the threshold the tightened side is
\* quoted at the mid.
MAX_SKEW_Whole == DecInt(1)

MAX_SKEW == Dec(1, 2)

\* _get_position reading the position's unsigned quantity.
_get_position_Unsigned ==
    IF positions_open = None THEN DecInt(0) ELSE DecAbs(Val(positions_open))

\* _get_position: the first open position's signed quantity, 0 if none.
_get_position ==
    IF positions_open = None THEN DecInt(0) ELSE Val(positions_open)

\* _calculate_skew with the position's sign kept (no abs).
_calculate_skew_Signed(position) ==
    IF cfg.inventory_threshold = DecInt(0) THEN Some(DecInt(0))
    ELSE LET position_ratio == DecDiv(position, cfg.inventory_threshold)
         IN  IF position_ratio = None THEN None
             ELSE LET skew_amount == DecMul(Val(position_ratio), MAX_SKEW)
                  IN  Some(DecMin(skew_amount, MAX_SKEW))

\* _calculate_skew without the test for a zero threshold.
_calculate_skew_NoZeroTest(position) ==
    LET position_ratio == DecDiv(DecAbs(position), cfg.inventory_threshold)
    IN  IF position_ratio = None THEN None
        ELSE LET skew_amount == DecMul(Val(position_ratio), MAX_SKEW)
             IN  Some(DecMin(skew_amount, MAX_SKEW))

\* _calculate_skew without the cap at MAX_SKEW.
_calculate_skew_Uncapped(position) ==
    IF cfg.inventory_threshold = DecInt(0) THEN Some(DecInt(0))
    ELSE LET position_ratio == DecDiv(DecAbs(position), cfg.inventory_threshold)
         IN  IF position_ratio = None THEN None
             ELSE Some(DecMul(Val(position_ratio), MAX_SKEW))

\* _calculate_skew(position): the fraction by which one side is tightened,
\* or None when the division raises.
_calculate_skew(position) ==
    IF cfg.inventory_threshold = DecInt(0) THEN Some(DecInt(0))
    ELSE LET position_ratio == DecDiv(DecAbs(position), cfg.inventory_threshold)
         IN  IF position_ratio = None THEN None
             ELSE LET skew_amount == DecMul(Val(position_ratio), MAX_SKEW)
                  IN  Some(DecMin(skew_amount, MAX_SKEW))

\* The buy price with the spread added instead of subtracted.
BuyPrice_Added(mid, bid_spread) == DecMul(mid, DecAdd(DecInt(1), bid_spread))

\* buy_price = mid * (1 - bid_spread)
BuyPrice(mid, bid_spread) == DecMul(mid, DecSub(DecInt(1), bid_spread))

\* The sell price with the spread subtracted instead of added.
SellPrice_Subtracted(mid, ask_spread) ==
    DecMul(mid, DecSub(DecInt(1), ask_spread))

\* sell_price = mid * (1 + ask_spread)
SellPrice(mid, ask_spread) == DecMul(mid, DecAdd(DecInt(1), ask_spread))

\* PlanFor with the sides exchanged: a long position tightens the bid, a
\* short position the ask.
PlanFor_TightensWrongSide(mid, position, skew_fraction) ==
    LET half_spread == Val(DecDiv(cfg.spread_pct, DecInt(2)))
        reduction == DecMul(half_spread, skew_fraction)
        long == DecLt(DecInt(0), position)
        short == ~long /\ DecLt(position, DecInt(0))
        bid0 == IF long THEN DecSub(half_spread, reduction) ELSE half_spread
        ask0 == IF short THEN DecSub(half_spread, reduction) ELSE half_spread
        bid_spread == DecMax(bid0, DecInt(0))
        ask_spread == DecMax(ask0, DecInt(0))
    IN  [skew_fraction |-> skew_fraction,
         half_spread |-> half_spread,
         bid_spread |-> bid_spread,
         ask_spread |-> ask_spread,
         buy_price |-> BuyPrice(mid, bid_spread),
         sell_price |-> SellPrice(mid, ask_spread)]

\* PlanFor without the branch for a short position.
PlanFor_ShortUntightened(mid, position, skew_fraction) ==
    LET half_spread == Val(DecDiv(cfg.spread_pct, DecInt(2)))
        reduction == DecMul(half_spread, skew_fraction)
        long == DecLt(DecInt(0), position)
        bid0 == half_spread
        ask0 == IF long THEN DecSub(half_spread, reduction) ELSE half_spread
        bid_spread == DecMax(bid0, DecInt(0))
        ask_spread == DecMax(ask0, DecInt(0))
    IN  [skew_fraction |-> skew_fraction,
         half_spread |-> half_spread,
         bid_spread |-> bid_spread,
         ask_spread |-> ask_spread,
         buy_price |-> BuyPrice(mid, bid_spread),
         sell_price |-> SellPrice(mid, ask_spread)]

\* The spreads and prices of one cycle for a skew fraction: steps 3 and 4 of
\* _place_orders.
PlanFor(mid, position, skew_fraction) ==
    LET half_spread == Val(DecDiv(cfg.spread_pct, DecInt(2)))
        reduction == DecMul(half_spread, skew_fraction)
        long == DecLt(DecInt(0), position)
        short == ~long /\ DecLt(position, DecInt(0))
        bid0 == IF short THEN DecSub(half_spread, reduction) ELSE half_spread
        ask0 == IF long THEN DecSub(half_spread, reduction) ELSE half_spread
        bid_spread == DecMax(bid0, DecInt(0))
        ask_spread == DecMax(ask0, DecInt(0))
    IN  [skew_fraction |-> skew_fraction,
         half_spread |-> half_spread,
         bid_spread |-> bid_spread,
         ask_spread |-> ask_spread,
         buy_price |-> BuyPrice(mid, bid_spread),
         sell_price |-> SellPrice(mid, ask_spread)]

\* Steps 2 to 4 of _place_orders: the plan of one cycle, or None when the
\* skew calculation raises.
QuotePlan(mid, position) ==
    LET skew == _calculate_skew(position)
    IN  IF skew = None THEN None
        ELSE Some(PlanFor(mid, position, Val(skew)))

----------------------------------------------------------------------------
(* The calls the strategy makes on the runtime.                            *)

Call(name) == [call |-> name, side |-> "-", price |-> None, quantity |-> None]

LimitOrder(side, price, quantity) ==
    [call |-> "submit_order", side |-> side,
     price |-> Some(price), quantity |-> Some(quantity)]

\* _submit_buy / _submit_sell: nothing without an instrument; otherwise one
\* limit order at the price and the trade size, each at the instrument's
\* precision.  The set of call sequences the submission can make.
SubmitLimit(side, price) ==
    IF instrument = None THEN {<<>>}
    ELSE {<<LimitOrder(side, px, qty)>> :
            px \in RoundTo(price, Val(instrument).price_precision),
            qty \in RoundTo(cfg.trade_size, Val(instrument).size_precision)}

\* _submit_sell as a copy of _submit_buy with the side left as BUY.
_submit_sell_AsBuy(price) == SubmitLimit("BUY", price)

_submit_buy(price) == SubmitLimit("BUY", price)
_submit_sell(price) == SubmitLimit("SELL", price)

----------------------------------------------------------------------------
(* The strategy's handlers.  Each states the strategy's own fields, the    *)
(* clock's timer, the subscription and the calls made; the runtime's       *)
(* state and the world outside are stated by the steps that run them.      *)

\* _place_orders, after the calls `before` already made by the cycle.
\* An exception raised while planning leaves the handler before any order.
_place_orders(before) ==
    LET p == QuotePlan(Val(_current_mid), _get_position)
    IN  /\ plan' = p
        /\ IF p = None
           THEN /\ issued' = before
                /\ UNCHANGED nSubmitted
           ELSE \E b \in _submit_buy(Val(p).buy_price),
                   s \in _submit_sell(Val(p).sell_price) :
                    /\ issued' = before \o b \o s
                    /\ nSubmitted' = nSubmitted + Len(b) + Len(s)

\* _on_quote_timer without the test of the mid price: the cycle cancels, and
\* planning on a missing mid raises.
_on_quote_timer_NoMidTest ==
    /\ IF instrument = None
       THEN /\ issued' = <<>>
            /\ plan' = None
            /\ UNCHANGED nSubmitted
       ELSE IF _current_mid = None
            THEN /\ issued' = <<Call("cancel_all_orders")>>
                 /\ plan' = None
                 /\ UNCHANGED nSubmitted
            ELSE _place_orders(<<Call("cancel_all_orders")>>)
    /\ UNCHANGED <<instrument, _book, _current_mid, timerArmed, subscribed,
                   bothSeen>>

\* _on_quote_timer
_on_quote_timer ==
    /\ IF \/ _current_mid = None
          \/ Val(_current_mid) = DecInt(0)
          \/ instrument = None
       THEN /\ issued' = <<>>
            /\ plan' = None
            /\ UNCHANGED nSubmitted
       ELSE _place_orders(<<Call("cancel_all_orders")>>)
    /\ UNCHANGED <<instrument, _book, _current_mid, timerArmed, subscribed,
                   bothSeen>>

\* on_order_book_deltas that also cancels the resting quotes on every batch.
on_order_book_deltas_Cancels(deltas) ==
    /\ IF _book = None
       THEN UNCHANGED <<_book, _current_mid, bothSeen>>
       ELSE LET book == apply_deltas(Val(_book), deltas)
                bid == best_bid_price(book)
                ask == best_ask_price(book)
            IN  /\ _book' = Some(book)
                /\ IF bid # None /\ ask # None
                   THEN /\ _current_mid' = Some(MidOf(Val(bid), Val(ask)))
                        /\ bothSeen' = TRUE
                   ELSE UNCHANGED <<_current_mid, bothSeen>>
    /\ issued' = IF _book = None THEN <<>> ELSE <<Call("cancel_all_orders")>>
    /\ plan' = None
    /\ UNCHANGED <<instrument, timerArmed, subscribed, nSubmitted>>

\* on_order_book_deltas that clears the mid when a side of the book is empty.
on_order_book_deltas_ClearsMid(deltas) ==
    /\ IF _book = None
       THEN UNCHANGED <<_book, _current_mid, bothSeen>>
       ELSE LET book == apply_deltas(Val(_book), deltas)
                bid == best_bid_price(book)
                ask == best_ask_price(book)
            IN  /\ _book' = Some(book)
                /\ IF bid # None /\ ask # None
                   THEN /\ _current_mid' = Some(MidOf(Val(bid), Val(ask)))
                        /\ bothSeen' = TRUE
                   ELSE /\ _current_mid' = None
                        /\ UNCHANGED bothSeen
    /\ issued' = <<>>
    /\ plan' = None
    /\ UNCHANGED <<instrument, timerArmed, subscribed, nSubmitted>>

\* on_order_book_deltas that falls back to the one best price present when
\* the other side of the book is empty.
on_order_book_deltas_OneSided(deltas) ==
    /\ IF _book = None
       THEN UNCHANGED <<_book, _current_mid, bothSeen>>
       ELSE LET book == apply_deltas(Val(_book), deltas)
                bid == best_bid_price(book)
                ask == best_ask_price(book)
            IN  /\ _book' = Some(book)
                /\ IF bid # None /\ ask # None
                   THEN /\ _current_mid' = Some(MidOf(Val(bid), Val(ask)))
                        /\ bothSeen' = TRUE
                   ELSE /\ _current_mid' =
                             IF bid # None THEN Some(DecInt(Val(bid)))
                             ELSE IF ask # None THEN Some(DecInt(Val(ask)))
                             ELSE _current_mid
                        /\ UNCHANGED bothSeen
    /\ issued' = <<>>
    /\ plan' = None
    /\ UNCHANGED <<instrument, timerArmed, subscribed, nSubmitted>>

\* on_order_book_deltas(deltas)
on_order_book_deltas(deltas) ==
    /\ IF _book = None
       THEN UNCHANGED <<_book, _current_mid, bothSeen>>
       ELSE LET book == apply_deltas(Val(_book), deltas)
                bid == best_bid_price(book)
                ask == best_ask_price(book)
            IN  /\ _book' = Some(book)
                /\ IF bid # None /\ ask # None
                   THEN /\ _current_mid' = Some(MidOf(Val(bid), Val(ask)))
                        /\ bothSeen' = TRUE
                   ELSE UNCHANGED <<_current_mid, bothSeen>>
    /\ issued' = <<>>
    /\ plan' = None
    /\ UNCHANGED <<instrument, timerArmed, subscribed, nSubmitted>>

\* The calls of on_stop with the positions closed whatever the flag.
OnStopCalls_AlwaysClose ==
    <<Call("cancel_timer"), Call("cancel_all_orders"),
      Call("close_all_positions")>>

\* The calls of on_stop, in order.
OnStopCalls ==
    <<Call("cancel_timer"), Call("cancel_all_orders")>>
    \o (IF cfg.close_positions_on_stop
        THEN <<Call("close_all_positions")>> ELSE <<>>)

\* on_stop without the cancel_timer call.
on_stop_KeepsTimer ==
    /\ UNCHANGED timerArmed
    /\ issued' = Tail(OnStopCalls)
    /\ plan' = None
    /\ UNCHANGED <<_book, _current_mid, subscribed, nSubmitted, bothSeen>>

\* on_stop (self.instrument is left to the caller: on_start sets it first).
on_stop ==
    /\ timerArmed' = FALSE
    /\ issued' = OnStopCalls
    /\ plan' = None
    /\ UNCHANGED <<_book, _current_mid, subscribed, nSubmitted, bothSeen>>

\* on_start that subscribes and arms the timer before it looks the
\* instrument up.
on_start_SubscribesFirst ==
    /\ instrument' = IF cacheInstrument THEN Some(Instrument) ELSE None
    /\ _book' = Some(EmptyBook)
    /\ subscribed' = TRUE
    /\ plan' = None
    /\ UNCHANGED <<_current_mid, nSubmitted, bothSeen>>
    /\ IF ~cacheInstrument
       THEN /\ timerArmed' = FALSE
            /\ issued' = <<Call("subscribe_order_book_deltas"),
                           Call("set_timer")>> \o OnStopCalls
            /\ fsm' = "STOPPED"
       ELSE /\ timerArmed' = TRUE
            /\ issued' = <<Call("subscribe_order_book_deltas"),
                           Call("set_timer")>>
            /\ fsm' = "RUNNING"

\* on_start.  Without the instrument it calls self.stop(), which runs
\* on_stop and leaves the component stopped; otherwise the component runs.
on_start ==
    /\ instrument' = IF cacheInstrument THEN Some(Instrument) ELSE None
    /\ IF ~cacheInstrument
       THEN /\ on_stop
            /\ fsm' = "STOPPED"
       ELSE /\ _book' = Some(EmptyBook)
            /\ subscribed' = TRUE
            /\ timerArmed' = TRUE
            /\ issued' = <<Call("subscribe_order_book_deltas"), Call("set_timer")>>
            /\ plan' = None
            /\ fsm' = "RUNNING"
            /\ UNCHANGED <<_current_mid, nSubmitted, bothSeen>>

----------------------------------------------------------------------------
(* The steps: the runtime running a handler, and the world changing.       *)

world == <<cfg, positions_open, cacheInstrument>>

\* Strategy.start(): a component that is ready runs on_start.
Start ==
    /\ fsm = "READY"
    /\ on_start
    /\ lastEvent' = "start"
    /\ UNCHANGED world

\* Strategy.stop() that switches the close-on-stop flag off once it has run.
Stop_ClearsCloseFlag ==
    /\ fsm = "RUNNING"
    /\ on_stop
    /\ fsm' = "STOPPED"
    /\ lastEvent' = "stop"
    /\ cfg' = [cfg EXCEPT !.close_positions_on_stop = FALSE]
    /\ UNCHANGED <<instrument, positions_open, cacheInstrument>>

\* Strategy.stop(): a running component runs on_stop and is stopped.
Stop ==
    /\ fsm = "RUNNING"
    /\ on_stop
    /\ fsm' = "STOPPED"
    /\ lastEvent' = "stop"
    /\ UNCHANGED <<instrument, world>>

\* Strategy.reset(): a stopped component is ready again.  The strategy
\* defines no on_reset, so its fields stay as they are.
Reset ==
    /\ fsm = "STOPPED"
    /\ fsm' = "READY"
    /\ issued' = <<>>
    /\ plan' = None
    /\ lastEvent' = "reset"
    /\ UNCHANGED <<instrument, _book, _current_mid, timerArmed, subscribed,
                   nSubmitted, bothSeen, world>>

\* The venue sends a batch of deltas on the subscription.  The runtime hands
\* it to on_order_book_deltas while the component is running, and drops it
\* otherwise.
DeliverDeltas ==
    /\ subscribed
    /\ \E deltas \in Batches :
          IF fsm = "RUNNING"
          THEN on_order_book_deltas(deltas)
          ELSE /\ issued' = <<>>
               /\ plan' = None
               /\ UNCHANGED <<instrument, _book, _current_mid, timerArmed,
                              subscribed, nSubmitted, bothSeen>>
    /\ lastEvent' = "deltas"
    /\ UNCHANGED <<fsm, world>>

\* The clock fires the armed quote timer.
TimerFires ==
    /\ timerArmed
    /\ nSubmitted + 2 <= MaxSubmitted
    /\ _on_quote_timer
    /\ lastEvent' = "timer"
    /\ UNCHANGED <<fsm, world>>

\* The position store reports another open position, or none.
PositionChanges ==
    /\ \E ps \in Positions \ {positions_open} : positions_open' = ps
    /\ issued' = <<>>
    /\ plan' = None
    /\ lastEvent' = "world"
    /\ UNCHANGED <<cfg, fsm, instrument, _book, _current_mid, timerArmed,
                   subscribed, cacheInstrument, nSubmitted, bothSeen>>

\* The instrument provider loads the instrument into the cache.
InstrumentLoaded ==
    /\ ~cacheInstrument
    /\ cacheInstrument' = TRUE
    /\ issued' = <<>>
    /\ plan' = None
    /\ lastEvent' = "world"
    /\ UNCHANGED <<cfg, fsm, instrument, _book, _current_mid, timerArmed,
                   subscribed, positions_open, nSubmitted, bothSeen>>

\* MarketMaker.__init__ on a configuration, before the first start.
Init ==
    /\ cfg \in Configs
    /\ fsm = "READY"
    /\ instrument = None
    /\ _book = None
    /\ _current_mid = None
    /\ timerArmed = FALSE
    /\ subscribed = FALSE
    /\ positions_open \in Positions
    /\ cacheInstrument \in BOOLEAN
    /\ issued = <<>>
    /\ plan = None
    /\ nSubmitted = 0
    /\ bothSeen = FALSE
    /\ lastEvent = "init"
    /\ pendingCancels = 0
    /\ pendingSubmits = 0
    /\ resting = 0

\* The strategy and its world, with the venue's handling of the requests
\* left out.
Next ==
    \/ Start /\ UNCHANGED venue
    \/ Stop /\ UNCHANGED venue
    \/ Reset /\ UNCHANGED venue
    \/ DeliverDeltas /\ UNCHANGED venue
    \/ TimerFires /\ UNCHANGED venue
    \/ PositionChanges /\ UNCHANGED venue
    \/ InstrumentLoaded /\ UNCHANGED venue

Spec == Init /\ [][Next]_vars

----------------------------------------------------------------------------
(* The quote cycle on its own: a running strategy whose book holds one     *)
(* bid and one ask, over a wide range of configurations, positions and     *)
(* mid prices, on which the timer fires.                                   *)

PlanBids == {1, 99}
PlanAsks == {2, 101}

PlanInit ==
    /\ cfg \in PlanConfigs
    /\ fsm = "RUNNING"
    /\ instrument = Some(Instrument)
    /\ \E bid \in PlanBids, ask \in PlanAsks :
          /\ _book = Some([bids |-> {bid}, asks |-> {ask}])
          /\ _current_mid = Some(MidOf(bid, ask))
    /\ timerArmed = TRUE
    /\ subscribed = TRUE
    /\ positions_open \in PlanPositions
    /\ cacheInstrument = TRUE
    /\ issued = <<>>
    /\ plan = None
    /\ nSubmitted = 0
    /\ bothSeen = TRUE
    /\ lastEvent = "deltas"
    /\ pendingCancels = 0
    /\ pendingSubmits = 0
    /\ resting = 0

PlanNext == TimerFires /\ UNCHANGED venue

PlanSpec == PlanInit /\ [][PlanNext]_vars

----------------------------------------------------------------------------
(* The requests on their way to the venue.  The strategy sends cancel-all  *)
(* and the two submissions of a cycle one after the other and waits for no *)
(* answer; the venue processes the requests it has received one at a time, *)
(* in any order.                                                           *)

\* How many of the calls are calls of `name`.
Sent(calls, name) ==
    Cardinality({i \in 1..Len(calls) : calls[i].call = name})

\* The requests of the latest step with cancel-all awaited: the venue has
\* cancelled what rested before the submissions leave.
SendRequests_AwaitsCancel ==
    /\ UNCHANGED pendingCancels
    /\ pendingSubmits' = pendingSubmits + Sent(issued', "submit_order")
    /\ resting' = IF Sent(issued', "cancel_all_orders") > 0 THEN 0 ELSE resting

\* The requests of the latest step are on their way.
SendRequests ==
    /\ pendingCancels' = pendingCancels + Sent(issued', "cancel_all_orders")
    /\ pendingSubmits' = pendingSubmits + Sent(issued', "submit_order")
    /\ UNCHANGED resting

\* The timer fires: the cycle's requests leave, whatever is still on its way.
VenueTick ==
    /\ TimerFires
    /\ SendRequests

\* The strategy is stopped: on_stop's cancel-all leaves.
VenueStop ==
    /\ Stop
    /\ SendRequests

\* The venue processes a cancel-all: every order resting now is cancelled.
VenueCancelsAll ==
    /\ pendingCancels > 0
    /\ pendingCancels' = pendingCancels - 1
    /\ resting' = 0
    /\ issued' = <<>>
    /\ plan' = None
    /\ lastEvent' = "venue"
    /\ UNCHANGED <<fsm, instrument, _book, _current_mid, timerArmed,
                   subscribed, nSubmitted, bothSeen, pendingSubmits, world>>

\* The venue processes a submission: the order rests.
VenueAcceptsOrder ==
    /\ pendingSubmits > 0
    /\ pendingSubmits' = pendingSubmits - 1
    /\ resting' = resting + 1
    /\ issued' = <<>>
    /\ plan' = None
    /\ lastEvent' = "venue"
    /\ UNCHANGED <<fsm, instrument, _book, _current_mid, timerArmed,
                   subscribed, nSubmitted, bothSeen, pendingCancels, world>>

\* A running strategy that holds the mid of a two-sided book, with nothing
\* sent yet.
VenueInit ==
    /\ cfg \in Configs
    /\ fsm = "RUNNING"
    /\ instrument = Some(Instrument)
    /\ _book = Some([bids |-> {99}, asks |-> {101}])
    /\ _current_mid = Some(MidOf(99, 101))
    /\ timerArmed = TRUE
    /\ subscribed = TRUE
    /\ positions_open \in Positions
    /\ cacheInstrument = TRUE
    /\ issued = <<>>
    /\ plan = None
    /\ nSubmitted = 0
    /\ bothSeen = TRUE
    /\ lastEvent = "deltas"
    /\ pendingCancels = 0
    /\ pendingSubmits = 0
    /\ resting = 0

VenueNext ==
    \/ VenueTick
    \/ VenueStop
    \/ VenueCancelsAll
    \/ VenueAcceptsOrder

VenueSpec == VenueInit /\ [][VenueNext]_vars

----------------------------------------------------------------------------
(* The claims.                                                             *)

\* v is a value of `precision` decimal places, at most half a unit in the
\* last place away from x.
AtPrecision(v, x, precision) ==
    /\ (v.n * Pow10(precision)) % v.d = 0
    /\ DecLe(DecMul(DecInt(2 * Pow10(precision)), DecAbs(DecSub(v, x))),
             DecInt(1))

\* A call that is one limit order of the given side, at price `at` and the
\* configured trade size, both at the instrument's precision.
IsQuote(c, side, at) ==
    /\ c.call = "submit_order"
    /\ c.side = side
    /\ AtPrecision(Val(c.price), at, Val(instrument).price_precision)
    /\ AtPrecision(Val(c.quantity), cfg.trade_size,
                   Val(instrument).size_precision)

\* C1: a timer tick that fires while the strategy is running and a mid price
\* is available makes exactly three calls, in this order: cancel_all_orders,
\* a buy limit order at the planned bid price, a sell limit order at the
\* planned ask price (each price and the trade size at the instrument's
\* precision), and nothing else.
C1_TickCancelsThenQuotesBothSides ==
    [][(lastEvent' = "timer" /\ fsm = "RUNNING" /\ _current_mid # None)
        => /\ plan' # None
           /\ Len(issued') = 3
           /\ issued'[1] = Call("cancel_all_orders")
           /\ IsQuote(issued'[2], "BUY", Val(plan').buy_price)
           /\ IsQuote(issued'[3], "SELL", Val(plan').sell_price)
           /\ nSubmitted' = nSubmitted + 2]_vars

\* C1 witness: a cycle has quoted both sides around a mid with an open
\* position.
C1_Witness ==
    /\ lastEvent = "timer"
    /\ Len(issued) = 3
    /\ positions_open # None
    /\ nSubmitted = 2

\* C2: a timer tick that fires while no mid price is available makes no call
\* and changes nothing; and as long as no handled batch has left both sides
\* in the book, no order has been submitted.
C2_NoMidNoQuotes ==
    /\ [][(lastEvent' = "timer" /\ _current_mid = None)
           => /\ issued' = <<>>
              /\ plan' = None
              /\ UNCHANGED <<cfg, fsm, instrument, _book, _current_mid,
                             timerArmed, subscribed, nSubmitted>>]_vars
    /\ [](~bothSeen => nSubmitted = 0)

\* C2 witness: the timer has fired on a running strategy without a mid.
C2_Witness ==
    /\ lastEvent = "timer"
    /\ fsm = "RUNNING"
    /\ _current_mid = None
    /\ ~bothSeen
    /\ nSubmitted = 0

\* C3: a batch of book deltas makes no call: no order is submitted, nothing
\* is cancelled or closed, and only the book and the mid price may change.
C3_DeltasOnlyTrackTheBook ==
    [][lastEvent' = "deltas"
        => /\ issued' = <<>>
           /\ nSubmitted' = nSubmitted
           /\ UNCHANGED <<cfg, fsm, instrument, timerArmed, subscribed>>]_vars

\* C3 witness: a batch has moved the mid of a strategy that has quoted.
C3_Witness ==
    /\ lastEvent = "deltas"
    /\ fsm = "RUNNING"
    /\ nSubmitted > 0
    /\ _current_mid = Some(Dec(199, 2))

\* C4: for every mid > 0, position and configuration, the planned prices
\* satisfy bid_price <= mid <= ask_price, and neither spread is negative.
C4_PricesBracketMid ==
    plan # None =>
        LET p == Val(plan)
            mid == Val(_current_mid)
        IN  /\ DecLt(DecInt(0), mid)
            /\ DecLe(p.buy_price, mid)
            /\ DecLe(mid, p.sell_price)
            /\ DecLe(DecInt(0), p.bid_spread)
            /\ DecLe(DecInt(0), p.ask_spread)

\* C4 witness: a plan for a short position beyond the threshold, whose bid
\* lies strictly between the untightened bid and the mid.
C4_Witness ==
    /\ plan # None
    /\ positions_open # None
    /\ DecLt(Val(positions_open), DecInt(0))
    /\ DecLt(cfg.inventory_threshold, DecAbs(Val(positions_open)))
    /\ DecLt(DecInt(0), cfg.inventory_threshold)
    /\ DecLt(Val(plan).bid_spread, Val(plan).half_spread)
    /\ DecLt(Val(plan).buy_price, Val(_current_mid))

\* C5: for a threshold > 0 the skew fraction is min(|position| / threshold
\* * 0.5, 0.5): it lies in [0, 0.5], is 0.5 once |position| >= threshold,
\* does not decrease as |position| grows, and is the same for +position and
\* -position.
C5_SkewShape ==
    (plan # None /\ DecLt(DecInt(0), cfg.inventory_threshold)) =>
        LET skew == Val(plan).skew_fraction
            pos == DecAbs(_get_position)
            t == cfg.inventory_threshold
        IN  /\ DecLe(DecInt(0), skew)
            /\ DecLe(skew, Dec(1, 2))
            /\ IF DecLe(t, pos)
               THEN skew = Dec(1, 2)
               ELSE skew.n * 2 * t.n * pos.d = pos.n * t.d * skew.d
            /\ \A other \in PlanPositions :
                  LET q == IF other = None THEN DecInt(0) ELSE Val(other)
                      skewq == Val(_calculate_skew(q))
                  IN  /\ DecLe(DecAbs(q), pos) => DecLe(skewq, skew)
                      /\ DecAbs(q) = pos => skewq = skew

\* C5 witness: a short position inside the threshold, with a skew strictly
\* between 0 and 0.5.
C5_Witness ==
    /\ plan # None
    /\ DecLt(_get_position, DecInt(0))
    /\ DecLt(DecAbs(_get_position), cfg.inventory_threshold)
    /\ DecLt(DecInt(0), Val(plan).skew_fraction)
    /\ DecLt(Val(plan).skew_fraction, Dec(1, 2))

\* C6: with inventory_threshold 0 a quote cycle raises nothing: whatever the
\* position, its skew is 0, both spreads are the half-spread spread_pct / 2,
\* and both orders are submitted.
C6_ZeroThresholdQuotesUntightened ==
    (lastEvent = "timer" /\ cfg.inventory_threshold = DecInt(0)) =>
        /\ plan # None
        /\ Val(plan).skew_fraction = DecInt(0)
        /\ DecMul(DecInt(2), Val(plan).bid_spread) = cfg.spread_pct
        /\ DecMul(DecInt(2), Val(plan).ask_spread) = cfg.spread_pct
        /\ Len(issued) = 3
        /\ issued[2].call = "submit_order" /\ issued[2].side = "BUY"
        /\ issued[3].call = "submit_order" /\ issued[3].side = "SELL"

\* C6 witness: a cycle with threshold 0 and a long position has quoted.
C6_Witness ==
    /\ lastEvent = "timer"
    /\ cfg.inventory_threshold = DecInt(0)
    /\ DecLt(DecInt(0), _get_position)
    /\ Len(issued) = 3

\* The calls of a step include one named `name`.
Called(calls, name) == \E i \in 1..Len(calls) : calls[i].call = name

\* C7: a start that does not find the instrument in the cache is aborted: it
\* subscribes to nothing and arms no timer, the strategy is left stopped, and
\* as long as the strategy holds no instrument no timer is armed and no order
\* has been submitted by a tick.
C7_StartWithoutInstrumentAborts ==
    /\ [][(lastEvent' = "start" /\ fsm = "READY" /\ ~cacheInstrument)
           => /\ ~Called(issued', "subscribe_order_book_deltas")
              /\ ~Called(issued', "set_timer")
              /\ ~Called(issued', "submit_order")
              /\ UNCHANGED <<subscribed, _book, nSubmitted>>
              /\ ~timerArmed'
              /\ fsm' = "STOPPED"]_vars
    /\ [](instrument = None =>
            /\ ~timerArmed
            /\ ~subscribed
            /\ nSubmitted = 0)

\* C7 witness: a start has been aborted for want of the instrument.
C7_Witness ==
    /\ lastEvent = "start"
    /\ fsm = "STOPPED"
    /\ instrument = None
    /\ ~cacheInstrument

\* C8: stop makes, in this order, the calls cancel_timer, cancel_all_orders
\* and then close_all_positions if and only if close_positions_on_stop is
\* set; it submits no quote order.
C8_StopOrder ==
    [][(fsm # "STOPPED" /\ fsm' = "STOPPED")
        => /\ Len(issued') = (IF cfg.close_positions_on_stop THEN 3 ELSE 2)
           /\ issued'[1].call = "cancel_timer"
           /\ issued'[2].call = "cancel_all_orders"
           /\ cfg.close_positions_on_stop
                => issued'[3].call = "close_all_positions"
           /\ ~timerArmed'
           /\ nSubmitted' = nSubmitted]_vars

\* C8 witness: a strategy that has quoted was stopped without closing its
\* positions.
C8_Witness ==
    /\ lastEvent = "stop"
    /\ fsm = "STOPPED"
    /\ ~cfg.close_positions_on_stop
    /\ Len(issued) = 2
    /\ nSubmitted > 0

\* C9: once stop has run, no timer tick or batch of deltas is processed: no
\* timer is armed, and every step taken while stopped, a delivered batch
\* included, leaves the book and the mid as they are and makes no call.
C9_StoppedProcessesNothing ==
    /\ [](fsm = "STOPPED" => ~timerArmed)
    /\ [][fsm = "STOPPED"
           => /\ issued' = <<>>
              /\ UNCHANGED <<_book, _current_mid, nSubmitted, instrument>>]_vars

\* C9 witness: a batch of deltas was delivered to a stopped strategy that
\* holds a mid.
C9_Witness ==
    /\ fsm = "STOPPED"
    /\ lastEvent = "deltas"
    /\ _current_mid # None
    /\ nSubmitted > 0

\* Both sides of the strategy's book are present.
BothSides(b) ==
    /\ b # None
    /\ best_bid_price(Val(b)) # None
    /\ best_ask_price(Val(b)) # None

\* C10: the mid changes only when a handled batch leaves both a best bid and
\* a best ask, and then it is (best_bid + best_ask) / 2 (bid 99, ask 101:
\* 100); a batch that leaves a side empty, a tick and every other step leave
\* it as it was, so a mid once set is never undefined again.
C10_MidOnlyFromTwoSidedBook ==
    [][/\ _current_mid' # _current_mid
            => (lastEvent' = "deltas" /\ fsm = "RUNNING" /\ BothSides(_book'))
       /\ (lastEvent' = "deltas" /\ fsm = "RUNNING" /\ BothSides(_book'))
            => /\ _current_mid' # None
               /\ 2 * Val(_current_mid').n =
                    (Val(best_bid_price(Val(_book')))
                       + Val(best_ask_price(Val(_book'))))
                    * Val(_current_mid').d
       /\ (_book' = Some([bids |-> {99}, asks |-> {101}]) /\ _book' # _book)
            => _current_mid' = Some(DecInt(100))
       /\ _current_mid # None => _current_mid' # None]_vars

\* C10 witness: a handled batch has emptied the bid side and the mid set
\* before it is still held.
C10_Witness ==
    /\ lastEvent = "deltas"
    /\ fsm = "RUNNING"
    /\ _book # None
    /\ best_bid_price(Val(_book)) = None
    /\ best_ask_price(Val(_book)) # None
    /\ _current_mid = Some(DecInt(100))

\* The spread of the tightened side before the floor:
\* half_spread - half_spread * skew, with half_spread = spread_pct / 2.
HalfSpreadOf(spread_pct) == Dec(spread_pct.n, 2 * spread_pct.d)
Tightened(spread_pct, skew) ==
    DecSub(HalfSpreadOf(spread_pct), DecMul(HalfSpreadOf(spread_pct), skew))

\* The case of C11: spread_pct 0.01, threshold 5, mid 100, a long position
\* at or beyond the threshold, and a cycle that has just planned.
C11_Case ==
    /\ lastEvent = "timer"
    /\ plan # None
    /\ cfg.spread_pct = Dec(1, 100)
    /\ cfg.inventory_threshold = DecInt(5)
    /\ _current_mid = Some(DecInt(100))
    /\ DecLe(DecInt(5), _get_position)

\* C11 as claimed: in that case the skew is 0.5, the ask spread is 0 and the
\* planned prices are ask 100.0 (the mid itself) and bid 99.5.
C11_AskAtMidAtThreshold ==
    C11_Case => /\ Val(plan).skew_fraction = Dec(1, 2)
                /\ Val(plan).ask_spread = DecInt(0)
                /\ Val(plan).sell_price = DecInt(100)
                /\ Val(plan).buy_price = Dec(199, 2)

\* C11: for spread_pct 0.01, threshold 5, mid 100 and any position at or
\* beyond the threshold, the skew is 0.5, the ask spread is half of the half
\* spread, 0.0025, and the planned prices are ask 100.25 and bid 99.5.
C11_AskKeepsHalfOfHalfSpreadAtThreshold ==
    C11_Case => /\ Val(plan).skew_fraction = Dec(1, 2)
                /\ Val(plan).ask_spread = Dec(1, 400)
                /\ Val(plan).sell_price = Dec(401, 4)
                /\ Val(plan).buy_price = Dec(199, 2)

\* C11 witness: a cycle has planned in that case with a position beyond the
\* threshold.
C11_Witness ==
    /\ C11_Case
    /\ positions_open = Some(DecInt(6))

\* C12: only the side that unwinds the inventory is tightened.  For a long
\* position the ask spread is half_spread - half_spread * skew and the bid
\* spread is half_spread; for a short position the bid spread is
\* half_spread - half_spread * skew and the ask spread is half_spread.
\* With spread_pct 0.01, threshold 5, position 2.5 and mid 100: skew 0.25,
\* ask spread 0.00375, ask 100.375, bid 99.5.
C12_OnlyUnwindingSideTightened ==
    (lastEvent = "timer" /\ plan # None)
      => LET pl == Val(plan)
             half == HalfSpreadOf(cfg.spread_pct)
             tight == Tightened(cfg.spread_pct, pl.skew_fraction)
         IN  /\ DecLt(DecInt(0), _get_position)
                  => pl.ask_spread = tight /\ pl.bid_spread = half
             /\ DecLt(_get_position, DecInt(0))
                  => pl.bid_spread = tight /\ pl.ask_spread = half
             /\ (/\ cfg.spread_pct = Dec(1, 100)
                 /\ cfg.inventory_threshold = DecInt(5)
                 /\ positions_open = Some(Dec(5, 2))
                 /\ _current_mid = Some(DecInt(100)))
                  => /\ pl.skew_fraction = Dec(1, 4)
                     /\ pl.ask_spread = Dec(3, 800)
                     /\ pl.sell_price = Dec(803, 8)
                     /\ pl.buy_price = Dec(199, 2)

\* C12 witness: a cycle has planned for position 2.5 at spread_pct 0.01,
\* threshold 5 and mid 100, and its ask is the tightened side.
C12_Witness ==
    /\ lastEvent = "timer"
    /\ plan # None
    /\ cfg.spread_pct = Dec(1, 100)
    /\ cfg.inventory_threshold = DecInt(5)
    /\ positions_open = Some(Dec(5, 2))
    /\ _current_mid = Some(DecInt(100))
    /\ DecLt(Val(plan).ask_spread, Val(plan).bid_spread)

\* C13: the plan for position +x and the plan for position -x mirror each
\* other: the ask spread of one is the bid spread of the other, and in both
\* the side that is not tightened has spread half_spread = spread_pct / 2.
C13_MirroredPositionsMirrorSpreads ==
    (lastEvent = "timer" /\ plan # None /\ positions_open # None)
      => LET pl == Val(plan)
             x == _get_position
             mirror == QuotePlan(Val(_current_mid), DecSub(DecInt(0), x))
             half == HalfSpreadOf(cfg.spread_pct)
         IN  /\ mirror # None
             /\ pl.ask_spread = Val(mirror).bid_spread
             /\ pl.bid_spread = Val(mirror).ask_spread
             /\ IF DecLt(DecInt(0), x)
                THEN pl.bid_spread = half /\ Val(mirror).ask_spread = half
                ELSE pl.ask_spread = half /\ Val(mirror).bid_spread = half

\* C13 witness: a cycle has planned for a long position whose ask is
\* tightened, so that the mirrored plan has to tighten its bid.
C13_Witness ==
    /\ lastEvent = "timer"
    /\ plan # None
    /\ positions_open = Some(DecInt(2))
    /\ cfg.inventory_threshold = DecInt(4)
    /\ DecLt(Val(plan).ask_spread, Val(plan).bid_spread)

\* C14: with no position the plan has bid spread = ask spread =
\* spread_pct / 2, so the bid price is mid * (1 - spread_pct / 2) and the ask
\* price is mid * (1 + spread_pct / 2); spread_pct 0.01 and mid 100 give bid
\* 99.5 and ask 100.5.
C14_FlatPositionQuotesSymmetric ==
    (lastEvent = "timer" /\ plan # None /\ _get_position = DecInt(0))
      => LET pl == Val(plan)
             mid == Val(_current_mid)
             half == HalfSpreadOf(cfg.spread_pct)
         IN  /\ pl.bid_spread = half
             /\ pl.ask_spread = half
             /\ pl.buy_price = DecMul(mid, DecSub(DecInt(1), half))
             /\ pl.sell_price = DecMul(mid, DecAdd(DecInt(1), half))
             /\ (cfg.spread_pct = Dec(1, 100) /\ mid = DecInt(100))
                  => /\ pl.buy_price = Dec(199, 2)
                     /\ pl.sell_price = Dec(201, 2)

\* C14 witness: a cycle has planned with no open position at spread_pct 0.01
\* and mid 100.
C14_Witness ==
    /\ lastEvent = "timer"
    /\ plan # None
    /\ positions_open = None
    /\ cfg.spread_pct = Dec(1, 100)
    /\ cfg.inventory_threshold = DecInt(5)
    /\ _current_mid = Some(DecInt(100))

C15_TickQuotesOnlyOnTwoSidedBook ==
    (lastEvent = "timer" /\ Called(issued, "submit_order"))
      => BothSides(_book)

\* C15: a timer tick submits orders only if a mid is held, that is only if
\* some handled batch has left both a best bid and a best ask in the book
\* at some time before the tick; the orders are planned around the held
\* mid, whatever the book holds at the time of the tick.
C15_TickQuotesOnlyOnHeldMid ==
    [][(lastEvent' = "timer" /\ nSubmitted' > nSubmitted)
        => /\ bothSeen
           /\ _current_mid # None
           /\ plan' # None
           /\ DecLe(Val(plan').buy_price, Val(_current_mid))
           /\ DecLe(Val(_current_mid), Val(plan').sell_price)]_vars

\* C15 witness: a tick has submitted both orders while the tracked book has
\* no bid, around the mid of an earlier two-sided book.
C15_Witness ==
    /\ lastEvent = "timer"
    /\ fsm = "RUNNING"
    /\ Called(issued, "submit_order")
    /\ _book # None
    /\ best_bid_price(Val(_book)) = None
    /\ _current_mid = Some(DecInt(100))

\* The skew fraction and the tightened side that belong to a reported
\* position: min(|position| / threshold * 0.5, 0.5), 0 for a zero threshold.
SkewOf(position) ==
    IF cfg.inventory_threshold = DecInt(0) THEN DecInt(0)
    ELSE DecMin(Val(DecDiv(DecAbs(position),
                           DecMul(DecInt(2), cfg.inventory_threshold))),
                Dec(1, 2))

\* C17: every quote cycle plans with the position the position store
\* reports at that tick, whatever it reported at earlier ticks: the skew is
\* the skew of that position, a long position tightens the ask and only the
\* ask, a short position the bid and only the bid, and no open position is
\* planned as position 0 (no skew, both spreads half_spread).
C17_CyclePlansWithCurrentPosition ==
    (lastEvent = "timer" /\ plan # None)
      => LET pl == Val(plan)
             half == HalfSpreadOf(cfg.spread_pct)
         IN  IF positions_open = None
             THEN /\ pl.skew_fraction = DecInt(0)
                  /\ pl.bid_spread = half
                  /\ pl.ask_spread = half
             ELSE LET p == Val(positions_open)
                      tight == Tightened(cfg.spread_pct, SkewOf(p))
                  IN  /\ pl.skew_fraction = SkewOf(p)
                      /\ pl.ask_spread =
                           IF DecLt(DecInt(0), p) THEN tight ELSE half
                      /\ pl.bid_spread =
                           IF DecLt(p, DecInt(0)) THEN tight ELSE half

\* C17 witness: the second cycle has planned for a short position at the
\* threshold, with the bid tightened by half.
C17_Witness ==
    /\ lastEvent = "timer"
    /\ nSubmitted = 4
    /\ plan # None
    /\ positions_open = Some(DecInt(-5))
    /\ cfg.inventory_threshold = DecInt(5)
    /\ Val(plan).skew_fraction = Dec(1, 2)
    /\ DecLt(Val(plan).bid_spread, Val(plan).ask_spread)

\* C18 as claimed: the mid does not survive stop.  Whenever the strategy is
\* stopped the mid is undefined, and a timer tick that directly follows a
\* start, with no book update in between, submits no order.
C18_MidDoesNotSurviveStop ==
    [][/\ fsm' = "STOPPED" => _current_mid' = None
       /\ (lastEvent = "start" /\ lastEvent' = "timer")
            => nSubmitted' = nSubmitted]_vars

\* C18 as claimed, the restart alone: a timer tick that directly follows a
\* start submits no order.
C18_NoQuoteBeforeBookUpdateAfterStart ==
    [][(lastEvent = "start" /\ lastEvent' = "timer")
        => nSubmitted' = nSubmitted]_vars

\* The configuration values that the data model calls strictly positive.
PositiveConfig ==
    /\ DecLt(DecInt(0), cfg.trade_size)
    /\ DecLt(DecInt(0), cfg.spread_pct)
    /\ DecLt(DecInt(0), cfg.inventory_threshold)
    /\ cfg.quote_interval_seconds > 0

C16_CycleRequestsAreNotAwaited ==
    /\ [][(lastEvent' = "timer" /\ plan' # None)
           => /\ pendingCancels' = pendingCancels + 1
              /\ pendingSubmits' = pendingSubmits + 2
              /\ resting' = resting]_vars
    /\ [](resting + pendingSubmits <= nSubmitted)

\* C16 witness: more than two of the strategy's orders rest at the venue at
\* the same time.
C16_Witness ==
    /\ resting > 2
    /\ fsm = "RUNNING"

====
